---- MODULE Spec2Model ----
(***************************************************************************)
(* Model of alpineworks/ootel.  src/ootel.go holds two revisions of the    *)
(* package; this is the later one, from line 174 on (the exporter-kind     *)
(* switch and startServer): option composition in NewOotelClient,          *)
(* OotelClient.Init with the trace and metric subsystem builders, the      *)
(* composed shutdown closure and the metrics server forked by Init.        *)
(*                                                                         *)
(* Pointers are sequences of length 0 (nil) or 1.  An error is the         *)
(* sequence of the tokens of its message, nil being the empty sequence.    *)
(***************************************************************************)
EXTENDS Integers, Sequences, FiniteSets, TLC

VARIABLES
    calls,                   \* one record per Init call, in call order
    servers,                 \* the goroutine forked by each Init call
    globalTracerProvider,    \* otel global tracer provider: 0 or the call that built it
    globalMeterProvider,     \* otel global meter provider: 0 or the call that built it
    globalTextMapPropagator, \* otel global propagator: 0 or the call that set it
    defaultServeMux,         \* patterns registered on http.DefaultServeMux
    stdout,                  \* what fmt.Println wrote
    crashed,                 \* an unrecovered panic ended the process
    options, optIdx, client, \* NewOotelClient: the options, the loop index, the client
    shutdownFuncs, sdOutcomes, sdIdx, errs, sdInvoked, sdResult, sdPc
                             \* the shutdown closure: the captured slice, what
                             \* each teardown returns, the loop index and locals

initVars == <<calls, servers, globalTracerProvider, globalMeterProvider,
              globalTextMapPropagator, defaultServeMux, stdout, crashed>>
optVars == <<options, optIdx, client>>
sdVars == <<shutdownFuncs, sdOutcomes, sdIdx, errs, sdInvoked, sdResult, sdPc>>
vars == <<initVars, optVars, sdVars>>

----------------------------------------------------------------------------
(* Bounds *)
MaxInits == 2
MaxOptions == 3
MaxFuncs == 3

----------------------------------------------------------------------------
(* Constants and values of the program *)
ExporterTypePrometheus == "prometheus"
ExporterTypeOTLPGRPC == "otlpgrpc"
ExporterTypeOTLPHTTP == "otlphttp"

ExamplePort == 8081

Nil == <<>>
Ptr(x) == <<x>>
Deref(p) == p[1]

\* exporter-kind strings a caller may pass: the three kinds and another
ExporterTypes == {ExporterTypePrometheus, ExporterTypeOTLPGRPC,
                  ExporterTypeOTLPHTTP, "statsd"}

\* SampleRate, ServiceName and ServiceVersion only reach the SDK
NewTraceConfig(enabled) == Ptr([Enabled |-> enabled])

NewMetricConfig(enabled, exporterType, serverPort) ==
    Ptr([Enabled |-> enabled, ExporterType |-> exporterType,
         ServerPort |-> serverPort])

TraceConfigs == {Nil} \cup {NewTraceConfig(e) : e \in BOOLEAN}

MetricConfigs ==
    {Nil, NewMetricConfig(FALSE, ExporterTypePrometheus, ExamplePort)}
    \cup {NewMetricConfig(TRUE, t, ExamplePort) : t \in ExporterTypes}

----------------------------------------------------------------------------
(* Functional options and NewOotelClient *)
WithTraceConfig(tc) == [target |-> "traceConfig", arg |-> tc]

WithMetricConfig(mc) == [target |-> "metricConfig", arg |-> mc]

EmptyClient == [traceConfig |-> Nil, metricConfig |-> Nil]

\* a variant in which a field once set is never overwritten
ApplyOption_KeepsFirst(option, oc) ==
    IF option.target = "traceConfig"
    THEN IF oc.traceConfig = Nil THEN [oc EXCEPT !.traceConfig = option.arg] ELSE oc
    ELSE IF oc.metricConfig = Nil THEN [oc EXCEPT !.metricConfig = option.arg] ELSE oc

\* option(client)
ApplyOption(option, oc) ==
    IF option.target = "traceConfig"
    THEN [oc EXCEPT !.traceConfig = option.arg]
    ELSE [oc EXCEPT !.metricConfig = option.arg]

RECURSIVE ApplyOptions(_, _)
ApplyOptions(opts, oc) ==
    IF opts = <<>> THEN oc
    ELSE ApplyOptions(Tail(opts), ApplyOption(Head(opts), oc))

NewOotelClient(opts) == ApplyOptions(opts, EmptyClient)

----------------------------------------------------------------------------
(* Errors *)
\* fmt.Errorf(prefix + ": %w", err)
Wrap(prefix, err) == prefix \o err

\* an error returned by a library the wrapper calls
ExternalErr == <<"EXTERNAL">>

\* what a teardown callable may return
TeardownResults == {Nil, <<"errA">>, <<"errB">>}

\* what meterProvider.Shutdown may return
MeterShutdownResults == {Nil, <<"errA">>}

\* errors.Join(errs...): nil when no error is non-nil, else the non-nil errors
Join(es) == SelectSeq(es, LAMBDA e : e # Nil)

----------------------------------------------------------------------------
(* The shutdown closure *)
\* a variant that keeps only the first error
ShutdownStep_FirstOnly(es, err) ==
    IF err # Nil /\ es = <<>> THEN Append(es, err) ELSE es

\* one iteration of the loop: if err := f(ctx); err != nil { errs = append(errs, err) }
ShutdownStep(es, err) == IF err # Nil THEN Append(es, err) ELSE es

RECURSIVE ShutdownLoop(_, _, _, _)
ShutdownLoop(funcs, outcomes, i, acc) ==
    IF i > Len(funcs) THEN acc
    ELSE ShutdownLoop(funcs, outcomes, i + 1,
             [invoked |-> Append(acc.invoked, funcs[i]),
              errs |-> ShutdownStep(acc.errs, outcomes[i])])

\* shutdown(ctx) with f(ctx) returning outcomes[i] for the i-th captured function
ShutdownClosure(funcs, outcomes) ==
    LET r == ShutdownLoop(funcs, outcomes, 1, [invoked |-> <<>>, errs |-> <<>>])
    IN  [invoked |-> r.invoked, result |-> Join(r.errs)]

----------------------------------------------------------------------------
(* The subsystem builders *)
TraceOutcomes == {"ok", "exporter", "resource"}

\* traceProvider(ctx, tc): the exporter or the resource merge may fail
traceProvider(outcome) ==
    CASE outcome = "exporter" -> [ok |-> FALSE, err |-> ExternalErr]
      [] outcome = "resource" ->
            [ok |-> FALSE,
             err |-> Wrap(<<"failed", "to", "create", "trace", "resource:">>, ExternalErr)]
      [] OTHER -> [ok |-> TRUE, err |-> Nil]

\* a variant whose errors do not name the exporter kind
meterProvider_DropsKind(exporterType, exporterFails) ==
    IF exporterType \in {ExporterTypePrometheus, ExporterTypeOTLPGRPC, ExporterTypeOTLPHTTP}
    THEN IF exporterFails
         THEN [ok |-> FALSE,
               err |-> Wrap(<<"failed", "to", "create", "metric", "exporter:">>, ExternalErr)]
         ELSE [ok |-> TRUE, err |-> Nil]
    ELSE [ok |-> FALSE, err |-> <<"unsupported", "metric", "exporter", "type">>]

\* meterProvider(ctx, exporterType): exporterFails is the exporter constructor failing
meterProvider(exporterType, exporterFails) ==
    CASE exporterType = ExporterTypePrometheus ->
            IF exporterFails
            THEN [ok |-> FALSE,
                  err |-> Wrap(<<"failed", "to", "create", "prometheus", "metric", "exporter:">>,
                               ExternalErr)]
            ELSE [ok |-> TRUE, err |-> Nil]
      [] exporterType = ExporterTypeOTLPGRPC ->
            IF exporterFails
            THEN [ok |-> FALSE,
                  err |-> Wrap(<<"failed", "to", "create", "otlpgrpc", "metric", "exporter:">>,
                               ExternalErr)]
            ELSE [ok |-> TRUE, err |-> Nil]
      [] exporterType = ExporterTypeOTLPHTTP ->
            IF exporterFails
            THEN [ok |-> FALSE,
                  err |-> Wrap(<<"failed", "to", "create", "otlphttp", "metric", "exporter:">>,
                               ExternalErr)]
            ELSE [ok |-> TRUE, err |-> Nil]
      [] OTHER ->
            [ok |-> FALSE,
             err |-> <<"unsupported", "metric", "exporter", "type:", exporterType>>]

----------------------------------------------------------------------------
(* OotelClient.Init *)
\* a variant that looks only at the presence of the config
TraceEnabled_IgnoresFlag(oc) == oc.traceConfig # Nil

TraceEnabled(oc) == oc.traceConfig # Nil /\ Deref(oc.traceConfig).Enabled

MetricEnabled(oc) == oc.metricConfig # Nil /\ Deref(oc.metricConfig).Enabled

\* the clients a caller builds, through NewOotelClient
Clients ==
    {NewOotelClient(<<WithMetricConfig(mc), WithTraceConfig(tc)>>) :
        mc \in MetricConfigs, tc \in TraceConfigs}

NoServer == [pc |-> "none", registered |-> {}, port |-> 0]

NewCall(oc) ==
    [oc |-> oc, pc |-> "trace", shutdownFuncs |-> <<>>,
     traceBuilder |-> "notcalled", meterBuilder |-> "notcalled",
     shutdown |-> "nil", err |-> Nil,
     shutdownCalled |-> FALSE, invoked |-> <<>>]

\* the caller enters Init: lines 262-274
InitBegin(oc) ==
    /\ ~crashed
    /\ Len(calls) < MaxInits
    /\ \A k \in 1..Len(calls) : calls[k].pc = "returned"
    /\ calls' = Append(calls, NewCall(oc))
    /\ servers' = Append(servers, NoServer)
    /\ UNCHANGED <<globalTracerProvider, globalMeterProvider,
                   globalTextMapPropagator, defaultServeMux, stdout, crashed>>

\* a variant that installs the propagator only once the builder succeeded
InitTrace_PropagatorAfterBuilder(k, outcome) ==
    /\ ~crashed
    /\ calls[k].pc = "trace"
    /\ IF TraceEnabled(calls[k].oc)
       THEN LET r == traceProvider(outcome)
            IN  IF r.ok
                THEN /\ globalTextMapPropagator' = k
                     /\ globalTracerProvider' = k
                     /\ calls' = [calls EXCEPT ![k].traceBuilder = "ok",
                                               ![k].pc = "metric"]
                ELSE /\ UNCHANGED <<globalTextMapPropagator, globalTracerProvider>>
                     /\ calls' = [calls EXCEPT
                           ![k].traceBuilder = "failed",
                           ![k].shutdown = "nil",
                           ![k].err = Wrap(<<"failed", "to", "create", "trace", "provider:">>,
                                           r.err),
                           ![k].pc = "returned"]
       ELSE /\ calls' = [calls EXCEPT ![k].pc = "metric"]
            /\ UNCHANGED <<globalTextMapPropagator, globalTracerProvider>>
    /\ UNCHANGED <<servers, globalMeterProvider, defaultServeMux, stdout, crashed>>

\* the tracing block: lines 276-289
InitTrace(k, outcome) ==
    /\ ~crashed
    /\ calls[k].pc = "trace"
    /\ IF TraceEnabled(calls[k].oc)
       THEN LET r == traceProvider(outcome)
            IN  /\ globalTextMapPropagator' = k
                /\ IF r.ok
                   THEN /\ globalTracerProvider' = k
                        /\ calls' = [calls EXCEPT ![k].traceBuilder = "ok",
                                                  ![k].pc = "metric"]
                   ELSE /\ UNCHANGED globalTracerProvider
                        /\ calls' = [calls EXCEPT
                              ![k].traceBuilder = "failed",
                              ![k].shutdown = "nil",
                              ![k].err = Wrap(<<"failed", "to", "create", "trace", "provider:">>,
                                              r.err),
                              ![k].pc = "returned"]
       ELSE /\ calls' = [calls EXCEPT ![k].pc = "metric"]
            /\ UNCHANGED <<globalTextMapPropagator, globalTracerProvider>>
    /\ UNCHANGED <<servers, globalMeterProvider, defaultServeMux, stdout, crashed>>

\* the method value meterProvider.Shutdown of the provider call k built
MeterShutdown(k) == [provider |-> "meterProvider", call |-> k]

\* the metric block with the go statement: lines 291-305
InitMetric(k, exporterFails) ==
    /\ ~crashed
    /\ calls[k].pc = "metric"
    /\ IF MetricEnabled(calls[k].oc)
       THEN LET r == meterProvider(Deref(calls[k].oc.metricConfig).ExporterType,
                                   exporterFails)
            IN  IF r.ok
                THEN /\ calls' = [calls EXCEPT
                           ![k].meterBuilder = "ok",
                           ![k].shutdownFuncs = Append(@, MeterShutdown(k)),
                           ![k].pc = "return"]
                     /\ globalMeterProvider' = k
                     /\ servers' = [servers EXCEPT ![k].pc = "forked"]
                ELSE /\ calls' = [calls EXCEPT
                           ![k].meterBuilder = "failed",
                           ![k].shutdown = "nil",
                           ![k].err = Wrap(<<"failed", "to", "create", "meter", "provider:">>,
                                           r.err),
                           ![k].pc = "returned"]
                     /\ UNCHANGED <<globalMeterProvider, servers>>
       ELSE /\ calls' = [calls EXCEPT ![k].pc = "return"]
            /\ UNCHANGED <<globalMeterProvider, servers>>
    /\ UNCHANGED <<globalTracerProvider, globalTextMapPropagator,
                   defaultServeMux, stdout, crashed>>

\* return shutdown, nil: line 307
InitReturn(k) ==
    /\ ~crashed
    /\ calls[k].pc = "return"
    /\ calls' = [calls EXCEPT ![k].shutdown = "closure", ![k].err = Nil,
                              ![k].pc = "returned"]
    /\ UNCHANGED <<servers, globalTracerProvider, globalMeterProvider,
                   globalTextMapPropagator, defaultServeMux, stdout, crashed>>

\* a variant whose closure also stops the server the call forked
Shutdown_StopsServer(k, outcomes) ==
    /\ ~crashed
    /\ calls[k].pc = "returned"
    /\ calls[k].shutdown = "closure"
    /\ LET r == ShutdownClosure(calls[k].shutdownFuncs, outcomes)
       IN  calls' = [calls EXCEPT ![k].shutdownCalled = TRUE,
                                  ![k].invoked = r.invoked]
    /\ servers' = [servers EXCEPT
          ![k].pc = IF @ = "listening" THEN "stopped" ELSE @]
    /\ UNCHANGED <<globalTracerProvider, globalMeterProvider,
                   globalTextMapPropagator, defaultServeMux, stdout, crashed>>

\* the caller invokes the shutdown closure Init returned: lines 265-274; the
\* caller drops the closure's result, as in the example's _ = shutdown(ctx)
Shutdown(k, outcomes) ==
    /\ ~crashed
    /\ calls[k].pc = "returned"
    /\ calls[k].shutdown = "closure"
    /\ LET r == ShutdownClosure(calls[k].shutdownFuncs, outcomes)
       IN  calls' = [calls EXCEPT ![k].shutdownCalled = TRUE,
                                  ![k].invoked = r.invoked]
    /\ UNCHANGED <<servers, globalTracerProvider, globalMeterProvider,
                   globalTextMapPropagator, defaultServeMux, stdout, crashed>>

----------------------------------------------------------------------------
(* startServer, in the goroutine forked by Init *)
\* a variant that registers the scrape route for every exporter kind
IsPrometheus_Always(mc) == TRUE

\* oc.metricConfig.ExporterType == "prometheus": line 301
IsPrometheus(mc) == mc.ExporterType = "prometheus"

\* http.Handle / http.HandleFunc on the default mux: a pattern registered
\* twice panics
Handle(mux, pattern) ==
    [panic |-> pattern \in mux, mux |-> mux \cup {pattern}]

PortInUse(port) ==
    \E j \in 1..Len(servers) : servers[j].pc = "listening" /\ servers[j].port = port

\* the registrations of startServer on the default mux: lines 376-379
RegisterRoutes(mux, isPrometheus) ==
    LET h == Handle(mux, "/healthcheck")
    IN  IF h.panic THEN [panic |-> TRUE, mux |-> mux, registered |-> {}]
        ELSE IF ~isPrometheus
             THEN [panic |-> FALSE, mux |-> h.mux, registered |-> {"/healthcheck"}]
             ELSE LET m == Handle(h.mux, "/metrics")
                  IN  IF m.panic
                      THEN [panic |-> TRUE, mux |-> h.mux,
                            registered |-> {"/healthcheck"}]
                      ELSE [panic |-> FALSE, mux |-> m.mux,
                            registered |-> {"/healthcheck", "/metrics"}]

\* a variant in which a bind failure reaches the Init caller
startServer_Propagates(k, bindOk) ==
    /\ ~crashed
    /\ servers[k].pc = "forked"
    /\ LET mc == Deref(calls[k].oc.metricConfig)
           r == RegisterRoutes(defaultServeMux, IsPrometheus(mc))
       IN  /\ defaultServeMux' = r.mux
           /\ crashed' = r.panic
           /\ IF r.panic
              THEN /\ servers' = [servers EXCEPT ![k].pc = "panicked",
                                                 ![k].registered = r.registered]
                   /\ UNCHANGED <<stdout, calls>>
              ELSE IF bindOk /\ ~PortInUse(mc.ServerPort)
              THEN /\ servers' = [servers EXCEPT ![k].pc = "listening",
                                                 ![k].port = mc.ServerPort,
                                                 ![k].registered = r.registered]
                   /\ UNCHANGED <<stdout, calls>>
              ELSE /\ servers' = [servers EXCEPT ![k].pc = "failed",
                                                 ![k].port = mc.ServerPort,
                                                 ![k].registered = r.registered]
                   /\ stdout' = Append(stdout,
                          Wrap(<<"failed", "to", "start", "server:">>, ExternalErr))
                   /\ calls' = [calls EXCEPT
                         ![k].shutdown = "nil",
                         ![k].err = Wrap(<<"failed", "to", "start", "server:">>, ExternalErr)]
    /\ UNCHANGED <<globalTracerProvider, globalMeterProvider, globalTextMapPropagator>>

\* the forked goroutine: startServer with the arguments of line 301, the route
\* registrations, http.ListenAndServe, and the Println of its error:
\* lines 300-304, 375-386.  A panic of a registration ends the process.
startServer(k, bindOk) ==
    /\ ~crashed
    /\ servers[k].pc = "forked"
    /\ LET mc == Deref(calls[k].oc.metricConfig)
           r == RegisterRoutes(defaultServeMux, IsPrometheus(mc))
       IN  /\ defaultServeMux' = r.mux
           /\ crashed' = r.panic
           /\ IF r.panic
              THEN /\ servers' = [servers EXCEPT ![k].pc = "panicked",
                                                 ![k].registered = r.registered]
                   /\ UNCHANGED stdout
              ELSE IF bindOk /\ ~PortInUse(mc.ServerPort)
              THEN /\ servers' = [servers EXCEPT ![k].pc = "listening",
                                                 ![k].port = mc.ServerPort,
                                                 ![k].registered = r.registered]
                   /\ UNCHANGED stdout
              ELSE /\ servers' = [servers EXCEPT ![k].pc = "failed",
                                                 ![k].port = mc.ServerPort,
                                                 ![k].registered = r.registered]
                   /\ stdout' = Append(stdout,
                          Wrap(<<"failed", "to", "start", "server:">>, ExternalErr))
    /\ UNCHANGED <<calls, globalTracerProvider, globalMeterProvider,
                   globalTextMapPropagator>>

----------------------------------------------------------------------------
(* The process: Init calls, shutdown calls and the forked servers *)
InitMain ==
    /\ calls = <<>>
    /\ servers = <<>>
    /\ globalTracerProvider = 0
    /\ globalMeterProvider = 0
    /\ globalTextMapPropagator = 0
    /\ defaultServeMux = {}
    /\ stdout = <<>>
    /\ crashed = FALSE

InitOptionsIdle == options = <<>> /\ optIdx = 0 /\ client = EmptyClient

InitShutdownIdle ==
    /\ shutdownFuncs = <<>>
    /\ sdOutcomes = <<>>
    /\ sdIdx = 0
    /\ errs = <<>>
    /\ sdInvoked = <<>>
    /\ sdResult = Nil
    /\ sdPc = "idle"

Init == InitMain /\ InitOptionsIdle /\ InitShutdownIdle

\* the outcomes of a library call are drawn only where the call is made
TraceOutcomesOf(k) ==
    IF TraceEnabled(calls[k].oc) THEN TraceOutcomes ELSE {"ok"}

ExporterFailsOf(k) ==
    IF MetricEnabled(calls[k].oc) THEN BOOLEAN ELSE {FALSE}

Next ==
    \/ \E oc \in Clients : InitBegin(oc) /\ UNCHANGED <<optVars, sdVars>>
    \/ \E k \in 1..Len(calls) : \E o \in TraceOutcomesOf(k) :
          InitTrace(k, o) /\ UNCHANGED <<optVars, sdVars>>
    \/ \E k \in 1..Len(calls) : \E f \in ExporterFailsOf(k) :
          InitMetric(k, f) /\ UNCHANGED <<optVars, sdVars>>
    \/ \E k \in 1..Len(calls) : InitReturn(k) /\ UNCHANGED <<optVars, sdVars>>
    \/ \E k \in 1..Len(calls) :
          \E outcomes \in [1..Len(calls[k].shutdownFuncs) -> MeterShutdownResults] :
             Shutdown(k, outcomes) /\ UNCHANGED <<optVars, sdVars>>
    \/ \E k \in 1..Len(servers), b \in BOOLEAN :
          startServer(k, b) /\ UNCHANGED <<optVars, sdVars>>

Spec == Init /\ [][Next]_vars

----------------------------------------------------------------------------
(* NewOotelClient, one option at a time: lines 222-231 *)
OptionSet ==
    {WithTraceConfig(tc) : tc \in TraceConfigs}
    \cup {WithMetricConfig(mc) : mc \in MetricConfigs}

SeqsUpTo(S, n) == UNION {[1..m -> S] : m \in 0..n}

InitOptions ==
    /\ options \in SeqsUpTo(OptionSet, MaxOptions)
    /\ optIdx = 0
    /\ client = EmptyClient
    /\ InitMain
    /\ InitShutdownIdle

\* one iteration of: for _, option := range options { option(client) }
OptionStep ==
    /\ optIdx < Len(options)
    /\ client' = ApplyOption(options[optIdx + 1], client)
    /\ optIdx' = optIdx + 1
    /\ UNCHANGED <<options, initVars, sdVars>>

NextOptions == OptionStep

SpecOptions == InitOptions /\ [][NextOptions]_vars

----------------------------------------------------------------------------
(* The shutdown closure over any captured slice, one iteration at a time: *)
(* lines 265-274                                                          *)
InitClosure ==
    /\ \E n \in 0..MaxFuncs :
          /\ shutdownFuncs = [i \in 1..n |-> i]
          /\ sdOutcomes \in [1..n -> TeardownResults]
    /\ sdIdx = 0
    /\ errs = <<>>
    /\ sdInvoked = <<>>
    /\ sdResult = Nil
    /\ sdPc = "loop"
    /\ InitMain
    /\ InitOptionsIdle

\* f(ctx) for the next captured function, and the append of its error
ClosureCall ==
    /\ sdPc = "loop"
    /\ sdIdx < Len(shutdownFuncs)
    /\ sdInvoked' = Append(sdInvoked, shutdownFuncs[sdIdx + 1])
    /\ errs' = ShutdownStep(errs, sdOutcomes[sdIdx + 1])
    /\ sdIdx' = sdIdx + 1
    /\ UNCHANGED <<shutdownFuncs, sdOutcomes, sdResult, sdPc, initVars, optVars>>

\* return errors.Join(errs...)
ClosureReturn ==
    /\ sdPc = "loop"
    /\ sdIdx = Len(shutdownFuncs)
    /\ sdResult' = Join(errs)
    /\ sdPc' = "done"
    /\ UNCHANGED <<shutdownFuncs, sdOutcomes, sdIdx, errs, sdInvoked, initVars, optVars>>

NextClosure == ClosureCall \/ ClosureReturn

SpecClosure == InitClosure /\ [][NextClosure]_vars

----------------------------------------------------------------------------
(* Properties *)
CallIds == 1..Len(calls)

Range(s) == {s[i] : i \in 1..Len(s)}

TraceOn(k) ==
    LET tc == calls[k].oc.traceConfig IN tc # Nil /\ tc[1].Enabled

MetricOn(k) ==
    LET mc == calls[k].oc.metricConfig IN mc # Nil /\ mc[1].Enabled

Kind(k) == calls[k].oc.metricConfig[1].ExporterType

RecognisedKinds == {"prometheus", "otlpgrpc", "otlphttp"}

Max(S) == CHOOSE x \in S : \A y \in S : y <= x

\* the most recent call whose trace (meter) builder succeeded, 0 if none
LastTracerInstaller == Max({0} \cup {k \in CallIds : calls[k].traceBuilder = "ok"})

LastMeterInstaller == Max({0} \cup {k \in CallIds : calls[k].meterBuilder = "ok"})

LastPropagatorInstaller == Max({0} \cup {k \in CallIds : calls[k].traceBuilder # "notcalled"})

\* C1: once the shutdown callable of a successful Init has run, the teardown
\* of every subsystem that Init built was invoked: the tracer provider's when
\* tracing was built, the meter provider's when metrics were built.
C1_TearsDownEverySubsystem ==
    \A k \in CallIds :
        calls[k].shutdownCalled =>
            /\ calls[k].traceBuilder = "ok" =>
                  [provider |-> "tracerProvider", call |-> k] \in Range(calls[k].invoked)
            /\ calls[k].meterBuilder = "ok" =>
                  [provider |-> "meterProvider", call |-> k] \in Range(calls[k].invoked)

\* C2: when the shutdown closure has returned, it has invoked every captured
\* teardown in registration order, whatever the earlier ones returned; its
\* result is nil exactly when every teardown returned nil, and otherwise holds
\* every teardown error, in order; with no teardown it is nil.
C2_ShutdownAggregates ==
    sdPc = "done" =>
        LET n == Len(shutdownFuncs)
            failing == {i \in 1..n : sdOutcomes[i] # <<>>}
        IN  /\ sdInvoked = shutdownFuncs
            /\ (sdResult = <<>>) <=> (failing = {})
            /\ Len(sdResult) = Cardinality(failing)
            /\ \A i \in failing : \E j \in 1..Len(sdResult) : sdResult[j] = sdOutcomes[i]
            /\ \A i, j \in failing :
                  i < j => \E a, b \in 1..Len(sdResult) :
                              a < b /\ sdResult[a] = sdOutcomes[i] /\ sdResult[b] = sdOutcomes[j]
            /\ n = 0 => sdResult = <<>>
            /\ ShutdownClosure(shutdownFuncs, sdOutcomes) =
                  [invoked |-> sdInvoked, result |-> sdResult]

C2_Witness ==
    /\ sdPc = "done"
    /\ Len(shutdownFuncs) = 3
    /\ sdOutcomes = <<(<<"errA">>), <<>>, (<<"errB">>)>>
    /\ sdResult = <<(<<"errA">>), (<<"errB">>)>>

\* C3: a subsystem whose config is absent or disabled is never built by that
\* Init, its global slot (and the propagator, for tracing) is never written by
\* it and no teardown is registered for it; with both off, Init returns a
\* shutdown callable and no error, forks no server, and the callable invokes
\* nothing and returns nil.
C3_DisabledSubsystemUntouched ==
    \A k \in CallIds :
        /\ ~TraceOn(k) =>
              /\ calls[k].traceBuilder = "notcalled"
              /\ globalTracerProvider # k
              /\ globalTextMapPropagator # k
              /\ [provider |-> "tracerProvider", call |-> k] \notin Range(calls[k].shutdownFuncs)
        /\ ~MetricOn(k) =>
              /\ calls[k].meterBuilder = "notcalled"
              /\ globalMeterProvider # k
              /\ [provider |-> "meterProvider", call |-> k] \notin Range(calls[k].shutdownFuncs)
              /\ servers[k].pc = "none"
        /\ (~TraceOn(k) /\ ~MetricOn(k)) =>
              /\ calls[k].shutdownFuncs = <<>>
              /\ calls[k].pc = "returned" =>
                    calls[k].shutdown = "closure" /\ calls[k].err = <<>>
              /\ calls[k].shutdownCalled => calls[k].invoked = <<>>
              /\ \A outcomes \in [1..Len(calls[k].shutdownFuncs) -> TeardownResults] :
                    ShutdownClosure(calls[k].shutdownFuncs, outcomes).result = <<>>

C3_Witness ==
    \E j, k \in CallIds :
        /\ j < k
        /\ calls[j].traceBuilder = "ok" /\ calls[j].meterBuilder = "ok"
        /\ calls[k].oc.traceConfig # <<>> /\ ~TraceOn(k)
        /\ calls[k].oc.metricConfig # <<>> /\ ~MetricOn(k)
        /\ calls[k].shutdownCalled
        /\ globalTracerProvider = j /\ globalMeterProvider = j

\* C4: an enabled metric config with an unrecognised exporter kind makes the
\* metric builder fail, and whenever the metric builder fails Init returns a
\* nil shutdown and an error wrapped as "failed to create meter provider:"
\* whose message holds the exporter kind; that Init does not install the global
\* meter, registers no meter teardown and forks no server, and a tracer
\* provider and propagator it installed stay installed.
C4_MetricBuilderFailure ==
    \A k \in CallIds :
        /\ (MetricOn(k) /\ Kind(k) \notin RecognisedKinds
               /\ calls[k].pc \in {"return", "returned"}
               /\ calls[k].traceBuilder # "failed") =>
              calls[k].meterBuilder = "failed"
        /\ calls[k].meterBuilder = "failed" =>
              /\ calls[k].pc = "returned"
              /\ calls[k].shutdown = "nil"
              /\ Len(calls[k].err) > 5
              /\ SubSeq(calls[k].err, 1, 5) = <<"failed", "to", "create", "meter", "provider:">>
              /\ \E i \in 1..Len(calls[k].err) : calls[k].err[i] = Kind(k)
              /\ globalMeterProvider # k
              /\ calls[k].shutdownFuncs = <<>>
              /\ servers[k].pc = "none"
              /\ calls[k].traceBuilder = "ok" =>
                    /\ globalTracerProvider = LastTracerInstaller
                    /\ globalTracerProvider >= k
                    /\ globalTextMapPropagator >= k

C4_Witness ==
    \E k \in CallIds :
        /\ calls[k].meterBuilder = "failed"
        /\ Kind(k) = "statsd"
        /\ calls[k].traceBuilder = "ok"
        /\ globalTracerProvider = k
        /\ globalTextMapPropagator = k

\* C5: when tracing is enabled and the trace builder fails, Init returns a nil
\* shutdown and an error wrapped as "failed to create trace provider:"; that
\* Init does not write the global tracer provider, never calls the metric
\* builder and forks no server, yet it has installed the global propagator.
C5_TraceBuilderFailure ==
    \A k \in CallIds :
        calls[k].traceBuilder = "failed" =>
            /\ TraceOn(k)
            /\ calls[k].pc = "returned"
            /\ calls[k].shutdown = "nil"
            /\ Len(calls[k].err) > 5
            /\ SubSeq(calls[k].err, 1, 5) = <<"failed", "to", "create", "trace", "provider:">>
            /\ globalTracerProvider # k
            /\ calls[k].meterBuilder = "notcalled"
            /\ globalMeterProvider # k
            /\ servers[k].pc = "none"
            /\ globalTextMapPropagator >= k
            /\ globalTextMapPropagator = LastPropagatorInstaller

C5_Witness ==
    \E k \in CallIds :
        /\ calls[k].traceBuilder = "failed"
        /\ MetricOn(k)
        /\ globalTextMapPropagator = k
        /\ globalTracerProvider = 0

\* C6: repeated Init calls overwrite the global providers and nothing else
\* fails: the process keeps running and each global slot holds the provider
\* of the most recent Init that installed one, also when each of those calls
\* forked a metrics server.
C6_SilentOverwrite ==
    /\ ~crashed
    /\ globalTracerProvider = LastTracerInstaller
    /\ globalMeterProvider = LastMeterInstaller

\* C7: a server that has called ListenAndServe registered /healthcheck, and
\* registered /metrics exactly when the exporter kind is prometheus; while it
\* listens, the mux serves /healthcheck, and /metrics exactly for prometheus.
C7_Routes ==
    \A k \in CallIds :
        /\ servers[k].pc \in {"none", "forked"} => servers[k].registered = {}
        /\ servers[k].pc \in {"listening", "failed"} =>
              /\ "/healthcheck" \in servers[k].registered
              /\ ("/metrics" \in servers[k].registered) <=> (Kind(k) = "prometheus")
        /\ servers[k].pc = "listening" =>
              /\ "/healthcheck" \in defaultServeMux
              /\ ("/metrics" \in defaultServeMux) <=> (Kind(k) = "prometheus")

C7_Witness ==
    \E k \in CallIds :
        /\ servers[k].pc = "listening"
        /\ Kind(k) = "otlphttp"
        /\ defaultServeMux = {"/healthcheck"}

\* a step of a forked server
ServerStepOf(k) ==
    /\ k <= Len(servers)
    /\ servers[k].pc = "forked"
    /\ servers'[k].pc # servers[k].pc

\* C8: an Init whose metric builder succeeded can return in whatever state
\* its server is, as long as the process runs, and once returned it has
\* returned a shutdown callable and a nil error; no step of a forked server
\* changes an Init call's result, its registered teardowns or the global
\* meter provider, and a bind failure is printed.
C8_ServerNeverAffectsInit ==
    /\ [](\A k \in CallIds :
            /\ (calls[k].pc = "return" /\ ~crashed) => ENABLED InitReturn(k)
            /\ (calls[k].meterBuilder = "ok" /\ calls[k].pc = "returned") =>
                  /\ calls[k].shutdown = "closure"
                  /\ calls[k].err = <<>>
                  /\ calls[k].shutdownFuncs = <<[provider |-> "meterProvider", call |-> k]>>)
    /\ [][\A k \in CallIds :
            ServerStepOf(k) =>
                /\ calls' = calls
                /\ globalMeterProvider' = globalMeterProvider
                /\ servers'[k].pc = "failed" =>
                      /\ Len(stdout') = Len(stdout) + 1
                      /\ SubSeq(stdout'[Len(stdout')], 1, 4) =
                            <<"failed", "to", "start", "server:">>]_vars

C8_Witness ==
    \E k \in CallIds :
        /\ calls[k].pc = "returned"
        /\ calls[k].shutdown = "closure"
        /\ calls[k].err = <<>>
        /\ servers[k].pc = "failed"
        /\ stdout # <<>>
        /\ globalMeterProvider = k

\* C9: after any number of options applied in order to an empty client, each
\* field holds the argument of the last option that targets it, or is absent
\* when none does; the result is what NewOotelClient returns, for any
\* arguments.
LastArg(opts, target) ==
    LET hits == {i \in 1..Len(opts) : opts[i].target = target}
    IN  IF hits = {} THEN <<>> ELSE opts[Max(hits)].arg

C9_LastWriteWins ==
    LET applied == SubSeq(options, 1, optIdx)
    IN  /\ client.traceConfig = LastArg(applied, "traceConfig")
        /\ client.metricConfig = LastArg(applied, "metricConfig")
        /\ NewOotelClient(applied) = client

C9_Witness ==
    /\ optIdx = 3
    /\ Len(options) = 3
    /\ options[1].target = "traceConfig" /\ options[1].arg # <<>>
    /\ options[2].target = "metricConfig" /\ options[2].arg # <<>>
    /\ options[2].arg[1].ExporterType = "statsd"
    /\ options[3].target = "traceConfig" /\ options[3].arg # options[1].arg
    /\ client.traceConfig = options[3].arg
    /\ client.metricConfig = options[2].arg

\* C10: a listening server keeps listening across every step, a call of the
\* shutdown callable included, as long as the process has not ended.
C10_ServerKeepsListening ==
    [][\A k \in CallIds :
          (servers[k].pc = "listening" /\ ~crashed') =>
              servers'[k].pc = "listening"]_vars

C10_Witness ==
    \E k \in CallIds :
        /\ servers[k].pc = "listening"
        /\ calls[k].shutdownCalled
        /\ calls[k].invoked = <<[provider |-> "meterProvider", call |-> k]>>

====
